---- MODULE Spec2Model ----
(***************************************************************************)
(* joykbd: a Joy-Con to pseudo-mouse/keyboard translator (src/main.rs).    *)
(*                                                                         *)
(* The parts of the module:                                                *)
(*   1. the arithmetic of map_axis: i32 addition, f64 multiplication,      *)
(*      division and the saturating `as i32` cast, bit for bit;            *)
(*   2. map_axis and map_event, the pure translation functions;            *)
(*   3. the select! loop of main with its two tokio sleeps (Spec);         *)
(*   4. runs that call map_axis and map_event on their own (MapSpec);      *)
(*   5. the properties of map_axis and map_event;                          *)
(*   6. the properties of the loop.                                        *)
(*                                                                         *)
(* TLC integers are 32 bits wide, so the 53-bit significands of f64 and    *)
(* their 106-bit products are kept as little-endian tuples of NLimbs       *)
(* limbs in base 2^LimbBits.                                               *)
(***************************************************************************)
EXTENDS Integers, Sequences, FiniteSets, TLC

VARIABLES
    args,          \* the parsed command line (Args), fixed after startup
    stick_constants, \* args.stick_constants(), computed once at startup
    overflow_checks, \* build profile: TRUE = debug (i32 overflow panics)
    now,           \* tokio's clock, in milliseconds since the loop started
    sleep_x,       \* the X Sleep: Never or At(deadline)
    sleep_y,       \* the Y Sleep: Never or At(deadline)
    prev_x,        \* last REL_X value forwarded
    prev_y,        \* last REL_Y value forwarded
    status,        \* "running", "io_error" (main returned Err) or "panicked"
    emitted,       \* history: every event handed to uinp.emit, in order
    handled,       \* history: every physical event taken from ev_stream
    resets,        \* history: every Sleep::reset call, in order
    m_in,          \* MapSpec: the last call of map_axis or map_event
    m_out          \* MapSpec: the outcome of that call

vars == <<args, stick_constants, overflow_checks, now, sleep_x, sleep_y, prev_x, prev_y,
          status, emitted, handled, resets, m_in, m_out>>

----------------------------------------------------------------------------------------------------------------------------------------
(* Part 1a: multi-limb naturals.  The operations are functions, not        *)
(* operators: TLC evaluates the argument of a function application once,   *)
(* where it re-evaluates an operator's argument at each use.               *)

LimbBits == 13
NLimbs == 9
Base == 2^LimbBits

Limbs == 1..NLimbs
BNat == Seq(Int)

\* column values (possibly negative or >= Base) to a tuple of proper limbs
BCarryFrom[cols \in BNat, i \in Nat, c \in Int] ==
    IF i > NLimbs THEN <<>>
    ELSE <<(cols[i] + c) % Base>>
         \o BCarryFrom[cols, i + 1, (cols[i] + c) \div Base]

BCarry[cols \in BNat] == BCarryFrom[cols, 1, 0]

BZero == BCarry[[i \in Limbs |-> 0]]

\* n in 0 .. 2^31-1 as a limb tuple
BFromNat[n \in Nat] == BCarry[[i \in Limbs |-> IF i = 1 THEN n ELSE 0]]

BOne == BFromNat[1]

\* 2^31, the magnitude of i32::MIN, which no TLC integer holds
BTwo31 == BCarry[[i \in Limbs |-> IF i = 3 THEN 2^(31 - 2 * LimbBits) ELSE 0]]

BColSum[a \in BNat, b \in BNat, k \in Nat, i \in Nat] ==
    IF i > k THEN 0 ELSE a[i] * b[k - i + 1] + BColSum[a, b, k, i + 1]

BAdd[a \in BNat, b \in BNat] == BCarry[[k \in Limbs |-> a[k] + b[k]]]
\* a - b for a >= b
BSub[a \in BNat, b \in BNat] == BCarry[[k \in Limbs |-> a[k] - b[k]]]
BMul[a \in BNat, b \in BNat] == BCarry[[k \in Limbs |-> BColSum[a, b, k, 1]]]

\* the index of the highest non-zero limb, 0 for zero
BTop[a \in BNat] ==
    IF \A i \in Limbs : a[i] = 0 THEN 0
    ELSE CHOOSE i \in Limbs : a[i] # 0 /\ \A j \in Limbs : j > i => a[j] = 0

\* -1, 0, 1 as a < b, a = b, a > b
BCmp[a \in BNat, b \in BNat] ==
    IF a = b THEN 0
    ELSE LET t == CHOOSE i \in Limbs :
                      a[i] # b[i] /\ \A j \in Limbs : j > i => a[j] = b[j]
         IN IF a[t] < b[t] THEN -1 ELSE 1

\* the number of bits of one limb
LimbLen[x \in Nat] ==
    IF x = 0 THEN 0
    ELSE CHOOSE k \in 1..LimbBits : x >= 2^(k - 1) /\ x < 2^k

BitLenAt[a \in BNat, t \in Nat] ==
    IF t = 0 THEN 0 ELSE LimbBits * (t - 1) + LimbLen[a[t]]

BitLen[a \in BNat] == BitLenAt[a, BTop[a]]

BShlBy[a \in BNat, ls \in Nat, bs \in Nat] ==
    BCarry[[i \in Limbs |->
        (IF i - ls >= 1 THEN (a[i - ls] % 2^(LimbBits - bs)) * 2^bs ELSE 0)
        + (IF i - ls - 1 >= 1 THEN a[i - ls - 1] \div 2^(LimbBits - bs) ELSE 0)]]

\* a * 2^k, for a result below Base^NLimbs
BShl[a \in BNat, k \in Nat] == BShlBy[a, k \div LimbBits, k % LimbBits]

BShrBy[a \in BNat, ls \in Nat, bs \in Nat] ==
    BCarry[[i \in Limbs |->
        (IF i + ls <= NLimbs THEN a[i + ls] \div 2^bs ELSE 0)
        + (IF i + ls + 1 <= NLimbs
           THEN (a[i + ls + 1] % 2^bs) * 2^(LimbBits - bs) ELSE 0)]]

\* a \div 2^k
BShr[a \in BNat, k \in Nat] == BShrBy[a, k \div LimbBits, k % LimbBits]

\* bit i (bit 0 is the least significant)
BBit[a \in BNat, i \in Nat] ==
    IF i \div LimbBits + 1 > NLimbs THEN 0
    ELSE (a[i \div LimbBits + 1] \div 2^(i % LimbBits)) % 2

\* all of bits 0..k-1 are zero
BLowZero[a \in BNat, k \in Nat] == BShl[BShr[a, k], k] = a

\* a < 2^31 back to an integer
BToNat[a \in BNat] == a[1] + a[2] * Base + a[3] * Base * Base

BDivState == BNat \X BNat

\* one step of binary long division: the remainder r2 = 2 * r + bit and the
\* doubled quotient q2 give the next <<quotient, remainder>>
BDivNext[q2 \in BNat, r2 \in BNat, d \in BNat] ==
    IF BCmp[r2, d] >= 0 THEN <<BAdd[q2, BOne], BSub[r2, d]>> ELSE <<q2, r2>>

BDivBit[p \in BDivState, d \in BNat, bit \in {0, 1}] ==
    BDivNext[BShl[p[1], 1], BAdd[BShl[p[2], 1], BFromNat[bit]], d]

\* the state st after taking in bits i+cnt-1 down to i of n
BDivBits[n \in BNat, d \in BNat, st \in BDivState, i \in Nat, cnt \in Nat] ==
    IF cnt = 0 THEN st
    ELSE BDivBit[BDivBits[n, d, st, i + 1, cnt - 1], d, BBit[n, i]]

\* the state after taking in limbs NLimbs down to k of n, a limb at a time
BDivLimbs[n \in BNat, d \in BNat, k \in Nat] ==
    IF k > NLimbs THEN <<BZero, BZero>>
    ELSE BDivBits[n, d, BDivLimbs[n, d, k + 1], LimbBits * (k - 1), LimbBits]

\* <<n \div d, n % d>>
BDivMod[n \in BNat, d \in BNat] == BDivLimbs[n, d, 1]

----------------------------------------------------------------------------
(* Part 1b: f64.  A finite double is [sgn, man, exp] with value            *)
(* sgn * man * 2^exp, man = 0 or 2^52 <= man < 2^53.  Every value the      *)
(* program computes from an i32 sample and a whole speed lies between      *)
(* 1e-30 and 2^160 in magnitude, far from the subnormals and from          *)
(* infinity, so the exponent is left unbounded.                            *)

F64_MANT_DIG == 53
I32_MAX == 2147483647
I32_MIN == -I32_MAX - 1

F64 == [sgn : {-1, 1}, man : BNat, exp : Int]
MkF64(sgn, man, exp) == [sgn |-> sgn, man |-> man, exp |-> exp]

\* the significand q of len bits, just rounded, renormalised
F64Renorm[sgn \in {-1, 1}, q \in BNat, exp \in Int, len \in Nat] ==
    IF len > F64_MANT_DIG THEN MkF64(sgn, BShr[q, 1], exp + 1)
    ELSE MkF64(sgn, q, exp)

\* man has len > 53 bits: drop sh = len - 53 of them, to nearest, ties to even
F64RoundShift[sgn \in {-1, 1}, man \in BNat, exp \in Int, sticky \in BOOLEAN, sh \in Nat, q \in BNat] ==
    IF BBit[man, sh - 1] = 1
       /\ (sticky \/ ~BLowZero[man, sh - 1] \/ BBit[q, 0] = 1)
    THEN F64Renorm[sgn, BAdd[q, BOne], exp + sh, BitLen[BAdd[q, BOne]]]
    ELSE MkF64(sgn, q, exp + sh)

F64RoundLen[sgn \in {-1, 1}, man \in BNat, exp \in Int, sticky \in BOOLEAN, len \in Nat] ==
    IF len = 0 THEN MkF64(sgn, BZero, 0)
    ELSE IF len <= F64_MANT_DIG
    THEN MkF64(sgn, BShl[man, F64_MANT_DIG - len], exp - (F64_MANT_DIG - len))
    ELSE F64RoundShift[sgn, man, exp, sticky, len - F64_MANT_DIG,
                       BShr[man, len - F64_MANT_DIG]]

\* round-to-nearest-even of sgn * (man + sticky fraction) * 2^exp
F64Round[sgn \in {-1, 1}, man \in BNat, exp \in Int, sticky \in BOOLEAN] ==
    F64RoundLen[sgn, man, exp, sticky, BitLen[man]]

\* |v| of an i32 as limbs; i32::MIN has magnitude 2^31
I32Magnitude[v \in Int] ==
    IF v = I32_MIN THEN BTwo31 ELSE BFromNat[IF v < 0 THEN -v ELSE v]

\* f64::from(i32): exact
F64FromI32[v \in Int] ==
    F64Round[IF v < 0 THEN -1 ELSE 1, I32Magnitude[v], 0, FALSE]

\* x * y
F64Mul[x \in F64, y \in F64] ==
    F64Round[x.sgn * y.sgn, BMul[x.man, y.man], x.exp + y.exp, FALSE]

F64DivQR[x \in F64, y \in F64, qr \in BDivState] ==
    F64Round[x.sgn * y.sgn, qr[1], x.exp - y.exp - (F64_MANT_DIG + 4),
             qr[2] # BZero]

\* x / y for y # 0: 57 or 58 quotient bits and a sticky remainder
F64Div[x \in F64, y \in F64] ==
    IF x.man = BZero THEN MkF64(x.sgn * y.sgn, BZero, 0)
    ELSE F64DivQR[x, y, BDivMod[BShl[x.man, F64_MANT_DIG + 4], y.man]]

\* x.powi(5): square, square, multiply (compiler-rt __powidf2, and LLVM's
\* expansion of powi with a constant exponent)
F64Square[x \in F64] == F64Mul[x, x]
F64Powi5[x \in F64] == F64Mul[x, F64Square[F64Square[x]]]

\* the integer part t of |x| as an i32, for x.exp in -52..-1
F64Saturate[sgn \in {-1, 1}, t \in BNat] ==
    IF BitLen[t] > 31 THEN (IF sgn = 1 THEN I32_MAX ELSE I32_MIN)
    ELSE sgn * BToNat[t]

\* `x as i32`: toward zero, saturating at i32::MIN and i32::MAX
F64AsI32[x \in F64] ==
    IF x.man = BZero \/ x.exp <= -F64_MANT_DIG THEN 0
    ELSE IF x.exp >= 0 THEN (IF x.sgn = 1 THEN I32_MAX ELSE I32_MIN)
    ELSE F64Saturate[x.sgn, BShr[x.man, -x.exp]]

\* `x.round() as i32`: to nearest, halves away from zero
F64RoundAsI32[x \in F64] ==
    IF x.man = BZero \/ x.exp < -F64_MANT_DIG THEN 0
    ELSE IF x.exp >= 0 THEN (IF x.sgn = 1 THEN I32_MAX ELSE I32_MIN)
    ELSE F64Saturate[x.sgn, BAdd[BShr[x.man, -x.exp],
                                 BFromNat[BBit[x.man, -x.exp - 1]]]]

----------------------------------------------------------------------------
(* Part 1c: i32.                                                           *)

\* the mathematical sum a + b lies outside i32
I32AddOverflows(a, b) ==
    \/ (b > 0 /\ a > I32_MAX - b)
    \/ (b < 0 /\ a < I32_MIN - b)

\* a + b modulo 2^32, as the release profile computes it
I32WrappingAdd(a, b) ==
    IF b > 0 /\ a > I32_MAX - b THEN (a - I32_MAX - 1) + (b - I32_MAX - 1)
    ELSE IF b < 0 /\ a < I32_MIN - b THEN (a + I32_MAX + 1) + (b + I32_MAX + 1)
    ELSE a + b

\* a u32 is held as limbs: the values above i32::MAX are beyond TLC's
\* integers.  n in 0 .. 2^31-1 as a u32, and 3_000_000_000
U32FromNat(n) == BFromNat[n]
U32_3e9 == BAdd[BTwo31, BFromNat[852516352]]

\* v.unsigned_abs() < t, for an i32 v and a u32 t
UnsignedAbsLess(v, t) == BCmp[I32Magnitude[v], t] < 0

----------------------------------------------------------------------------
(* Part 2: Args, StickConstants, map_axis, map_event.                      *)

\* Args as parsed by clap; speed is an f64 holding a whole number
DefaultArgs ==
    [speed |-> 20, repeat_timeout |-> 16, drift_threshold |-> U32FromNat(2000),
     adjust_x |-> 0, adjust_y |-> 0]

\* the inputs of the runs: --speed (the sign inverts the axes),
\* --drift-threshold (a u32: 3_000_000_000 is above the magnitude of every
\* i32), <<--adjust-x, --adjust-y>>, and the raw samples: the
\* grid k * GridStep of a device reporting in -32768..32767, the values
\* around the dead zone's edge and around full deflection, and the ends of
\* i32, where `value + adjustment` overflows
MaxGrid == 8
GridStep == 4096
Speeds == {-20, 0, 7, 20, 1000}
Thresholds == {U32FromNat(0), U32FromNat(2000), U32FromNat(20000), U32_3e9}
Adjusts == {<<0, 0>>, <<-1500, 700>>, <<1, -1>>, <<I32_MAX, I32_MIN>>}
RawValues ==
    {k * GridStep : k \in -MaxGrid..MaxGrid}
    \cup {-32767, -30000, -25000, -16478, -2001, -2000, -1999, -500, -1,
          1, 500, 1999, 2000, 2001, 16478, 25000, 29999, 30000, 32767}
    \cup {I32_MIN, I32_MIN + 1, I32_MAX - 1, I32_MAX}

\* 30_000f64.powi(5)
FullDeflectionPow == F64Powi5[F64FromI32[30000]]

\* self.speed / 30_000f64.powi(5); the quotients of the runs' speeds are
\* evaluated once
FactorTable ==
    [s \in Speeds |-> F64Div[F64FromI32[s], FullDeflectionPow]]
\* a slip: the full deflection taken to be i16::MAX
Factor_i16_max(speed) ==
    F64Div[F64FromI32[speed], F64Powi5[F64FromI32[32767]]]

Factor(speed) ==
    IF speed \in Speeds THEN FactorTable[speed]
    ELSE F64Div[F64FromI32[speed], FullDeflectionPow]

\* Args::stick_constants
Args_stick_constants(self) ==
    [factor |-> Factor(self.speed),
     drift_threshold |-> self.drift_threshold,
     adjustments |-> <<self.adjust_x, self.adjust_y>>]

Axis == {"X", "Y"}

\* the match on axis in map_axis
Adjustment(self, axis) ==
    IF axis = "X" THEN self.adjustments[1] ELSE self.adjustments[2]

\* f64::from(value).powi(5) * self.factor, the double handed to `as i32`
ResponseCurve(factor, value) == F64Mul[F64Powi5[F64FromI32[value]], factor]

\* the bias-corrected samples of the runs, and their curve values,
\* evaluated once
CurveInputs ==
    {I32WrappingAdd(v, a[i]) : v \in RawValues, a \in Adjusts, i \in 1..2}
CurveTable ==
    [s \in Speeds |-> [v \in CurveInputs |-> ResponseCurve(FactorTable[s], v)]]
ResponseCurveOf(factor, value) ==
    IF value \in CurveInputs /\ \E s \in Speeds : FactorTable[s] = factor
    THEN CurveTable[CHOOSE s \in Speeds : FactorTable[s] = factor][value]
    ELSE ResponseCurve(factor, value)

\* `value + adjustment` overflows i32: a panic with overflow checks on
\* (debug profile), a wrapped sum with them off (release profile)
map_axis_overflows(self, axis, value) ==
    I32AddOverflows(value, Adjustment(self, axis))

\* a slip: the curve applied to the magnitude of the sample
map_axis_unsigned(self, axis, value) ==
    LET v == I32WrappingAdd(value, Adjustment(self, axis))
    IN IF UnsignedAbsLess(v, self.drift_threshold) THEN 0
       ELSE IF v = I32_MIN THEN I32_MAX
       ELSE F64AsI32[ResponseCurve(self.factor, IF v < 0 THEN -v ELSE v)]

\* a slip: the product rounded to nearest instead of cast
map_axis_rounding(self, axis, value) ==
    LET v == I32WrappingAdd(value, Adjustment(self, axis))
    IN IF UnsignedAbsLess(v, self.drift_threshold) THEN 0
       ELSE F64RoundAsI32[ResponseCurveOf(self.factor, v)]

\* a slip: powi(4) for powi(5)
map_axis_powi4(self, axis, value) ==
    LET v == I32WrappingAdd(value, Adjustment(self, axis))
    IN IF UnsignedAbsLess(v, self.drift_threshold) THEN 0
       ELSE F64AsI32[F64Mul[F64Square[F64Square[F64FromI32[v]]], self.factor]]

\* StickConstants::map_axis, on the wrapped sum
map_axis(self, axis, value) ==
    LET v == I32WrappingAdd(value, Adjustment(self, axis))
    IN IF UnsignedAbsLess(v, self.drift_threshold) THEN 0
       ELSE F64AsI32[ResponseCurveOf(self.factor, v)]

None == <<>>
Some(e) == <<e>>
InputEvent(type, code, value) == [type |-> type, code |-> code, value |-> value]

\* a slip: the R arm pasted from the ZL/ZR arm with its output code
map_event_pasted(ev, sc) ==
    IF ev.type = "KEY" /\ ev.code \in {"BTN_TR2", "BTN_TL2", "BTN_TR"}
    THEN Some(InputEvent("KEY", "BTN_LEFT", ev.value))
    ELSE IF ev.type = "KEY" /\ ev.code \in {"BTN_TL"}
    THEN Some(InputEvent("KEY", "BTN_RIGHT", ev.value))
    ELSE IF ev.type = "KEY" /\ ev.code \in {"BTN_THUMBR", "BTN_THUMBL"}
    THEN Some(InputEvent("KEY", "BTN_MIDDLE", ev.value))
    ELSE IF ev.type = "KEY" /\ ev.code = "BTN_EAST"
    THEN Some(InputEvent("KEY", "KEY_RIGHT", ev.value))
    ELSE IF ev.type = "KEY" /\ ev.code = "BTN_SOUTH"
    THEN Some(InputEvent("KEY", "KEY_DOWN", ev.value))
    ELSE IF ev.type = "KEY" /\ ev.code = "BTN_NORTH"
    THEN Some(InputEvent("KEY", "KEY_UP", ev.value))
    ELSE IF ev.type = "KEY" /\ ev.code = "BTN_WEST"
    THEN Some(InputEvent("KEY", "KEY_LEFT", ev.value))
    ELSE IF ev.type = "ABS" /\ ev.code \in {"ABS_RX", "ABS_X"}
    THEN Some(InputEvent("REL", "REL_X", map_axis(sc, "X", ev.value)))
    ELSE IF ev.type = "ABS" /\ ev.code \in {"ABS_RY", "ABS_Y"}
    THEN Some(InputEvent("REL", "REL_Y", map_axis(sc, "Y", ev.value)))
    ELSE None

\* the match of map_event; the axis arms call map_axis
map_event(ev, sc) ==
    IF ev.type = "KEY" /\ ev.code \in {"BTN_TR2", "BTN_TL2"}
    THEN Some(InputEvent("KEY", "BTN_LEFT", ev.value))
    ELSE IF ev.type = "KEY" /\ ev.code \in {"BTN_TR", "BTN_TL"}
    THEN Some(InputEvent("KEY", "BTN_RIGHT", ev.value))
    ELSE IF ev.type = "KEY" /\ ev.code \in {"BTN_THUMBR", "BTN_THUMBL"}
    THEN Some(InputEvent("KEY", "BTN_MIDDLE", ev.value))
    ELSE IF ev.type = "KEY" /\ ev.code = "BTN_EAST"
    THEN Some(InputEvent("KEY", "KEY_RIGHT", ev.value))
    ELSE IF ev.type = "KEY" /\ ev.code = "BTN_SOUTH"
    THEN Some(InputEvent("KEY", "KEY_DOWN", ev.value))
    ELSE IF ev.type = "KEY" /\ ev.code = "BTN_NORTH"
    THEN Some(InputEvent("KEY", "KEY_UP", ev.value))
    ELSE IF ev.type = "KEY" /\ ev.code = "BTN_WEST"
    THEN Some(InputEvent("KEY", "KEY_LEFT", ev.value))
    ELSE IF ev.type = "ABS" /\ ev.code \in {"ABS_RX", "ABS_X"}
    THEN Some(InputEvent("REL", "REL_X", map_axis(sc, "X", ev.value)))
    ELSE IF ev.type = "ABS" /\ ev.code \in {"ABS_RY", "ABS_Y"}
    THEN Some(InputEvent("REL", "REL_Y", map_axis(sc, "Y", ev.value)))
    ELSE None

\* map_event reaches an overflowing `value + adjustment`
map_event_overflows(ev, sc) ==
    \/ (ev.type = "ABS" /\ ev.code \in {"ABS_RX", "ABS_X"}
        /\ map_axis_overflows(sc, "X", ev.value))
    \/ (ev.type = "ABS" /\ ev.code \in {"ABS_RY", "ABS_Y"}
        /\ map_axis_overflows(sc, "Y", ev.value))

----------------------------------------------------------------------------
(* Part 3: main.  One action per select! branch; each action is the whole  *)
(* branch body.  Time is tokio's clock in whole milliseconds, the ticks of  *)
(* its timer wheel.  A Sleep completes no earlier than the first tick      *)
(* after its deadline, and nothing bounds how much later the task is       *)
(* polled: the clock passes a deadline that is due.  A handler reads the   *)
(* clock (Instant::now()) and calls uinp.emit at two instants, and the     *)
(* clock may go on by any number of ticks between the two.                 *)
(* A run is bounded by its histories: the device reports MaxHandled events *)
(* and the sink takes MaxEmitted.  The clock runs freely up to MaxTime;    *)
(* from there on it goes on as long as a deadline is pending, and the      *)
(* handlers take no time.                                                  *)

MaxTime == 5
MaxHandled == 2
MaxEmitted == 4

\* a slip: time::sleep(Duration::ZERO)
Never_elapsed == [far_future |-> FALSE, at |-> 0]

\* time::sleep(Duration::MAX): tokio clamps the deadline to far_future(),
\* about thirty years ahead
Never == [far_future |-> TRUE, at |-> 0]
\* Sleep::reset(deadline)
At(t) == [far_future |-> FALSE, at |-> t]

\* the Sleep future is ready: the deadline, an instant within the tick
\* sleep.at, is rounded up to the next tick of the timer wheel
Elapsed(sleep) == ~sleep.far_future /\ sleep.at < now

RepeatTimeouts == 0..2

\* the command lines of the loop's runs
LoopArgs ==
    {[DefaultArgs EXCEPT !.repeat_timeout = rt] : rt \in RepeatTimeouts}

\* what the device may report while the loop runs
LoopEvents ==
    {InputEvent("ABS", "ABS_X", 30000), InputEvent("ABS", "ABS_RX", 500),
     InputEvent("ABS", "ABS_Y", 500), InputEvent("ABS", "ABS_RY", -25000),
     InputEvent("KEY", "BTN_TL2", 1), InputEvent("SYN", "SYN_REPORT", 0)}

NoCall == [fn |-> "none"]

Init ==
    /\ args \in LoopArgs
    /\ stick_constants = Args_stick_constants(args)
    /\ overflow_checks = FALSE
    /\ now = 0
    /\ sleep_x = Never
    /\ prev_x = 0
    /\ sleep_y = Never
    /\ prev_y = 0
    /\ status = "running"
    /\ emitted = <<>>
    /\ handled = <<>>
    /\ resets = <<>>
    /\ m_in = NoCall
    /\ m_out = NoCall

\* an entry of the history of uinp.emit calls, made at the tick instant
Emission(ev, by, instant) == [ev |-> ev, at |-> instant, by |-> by]

\* an entry of the history of Sleep::reset calls: the timer and the tick
\* of the Instant::now() its deadline is counted from
Reset(timer, instant) == [timer |-> timer, at |-> instant]

\* the ticks a handler may take between its two instants
Delays == 0..MaxTime

\* a slip: the timeout is left out of the deadline
RepeatDeadline_now(instant) == At(instant)

\* a slip: the deadline is re-armed one period late
RepeatDeadline_late(instant) == At(instant + 2 * args.repeat_timeout)

\* lines 122, 126, 139, 147: the deadline Instant::now() + repeat_timeout
RepeatDeadline(instant) == At(instant + args.repeat_timeout)

\* a slip: an event map_event drops is handed on as it came
Continue_forwards(ev) ==
    /\ emitted' = Append(emitted, Emission(ev, "event", now'))
    /\ UNCHANGED <<sleep_x, sleep_y, prev_x, prev_y, status, resets>>

\* a slip: the timers are re-armed before the event is looked at
Continue_rearms(ev) ==
    /\ sleep_x' = (IF sleep_x.far_future THEN sleep_x ELSE RepeatDeadline(now))
    /\ sleep_y' = (IF sleep_y.far_future THEN sleep_y ELSE RepeatDeadline(now))
    /\ UNCHANGED <<prev_x, prev_y, status, emitted, resets>>

\* line 118: `continue`, the event ev is dropped
Continue(ev) ==
    UNCHANGED <<sleep_x, sleep_y, prev_x, prev_y, status, emitted, resets>>

\* a timer is armed and not yet ready, and the history has room for its
\* repeat
DeadlinePending ==
    /\ Len(emitted) < MaxEmitted
    /\ \E sleep \in {sleep_x, sleep_y} : ~sleep.far_future /\ ~Elapsed(sleep)

\* the clock advances by a millisecond while the task waits in select!,
\* whether or not a Sleep is ready
Tick ==
    /\ status = "running"
    /\ (now < MaxTime \/ DeadlinePending)
    /\ now' = now + 1
    /\ UNCHANGED <<args, stick_constants, overflow_checks, sleep_x, sleep_y,
                   prev_x, prev_y, status, emitted, handled, resets, m_in,
                   m_out>>

\* a slip: the arm of REL_X resets the timer of Y as well
ArmX_resets_both(value) ==
    /\ sleep_x' = RepeatDeadline(now)
    /\ prev_x' = value
    /\ sleep_y' = RepeatDeadline(now)
    /\ resets' = Append(resets, Reset("sleep_x", now))
    /\ UNCHANGED prev_y

\* a slip: the last value is not stored
ArmX_stale(value) ==
    /\ sleep_x' = RepeatDeadline(now)
    /\ resets' = Append(resets, Reset("sleep_x", now))
    /\ UNCHANGED <<prev_x, sleep_y, prev_y>>

\* a slip: a timer that is already armed keeps its deadline
ArmX_keeps_deadline(value) ==
    /\ sleep_x' = (IF sleep_x.far_future THEN RepeatDeadline(now) ELSE sleep_x)
    /\ prev_x' = value
    /\ resets' = Append(resets, Reset("sleep_x", now))
    /\ UNCHANGED <<sleep_y, prev_y>>

\* a slip: a zero motion does not replace the last value
ArmX_ignores_zero(value) ==
    /\ sleep_x' = RepeatDeadline(now)
    /\ prev_x' = (IF value = 0 THEN prev_x ELSE value)
    /\ resets' = Append(resets, Reset("sleep_x", now))
    /\ UNCHANGED <<sleep_y, prev_y>>

\* lines 121-124: the arm of REL_X; the clock is read as the arm is entered
ArmX(value) ==
    /\ sleep_x' = RepeatDeadline(now)
    /\ prev_x' = value
    /\ resets' = Append(resets, Reset("sleep_x", now))
    /\ UNCHANGED <<sleep_y, prev_y>>

\* lines 125-128: the arm of REL_Y
ArmY(value) ==
    /\ sleep_y' = RepeatDeadline(now)
    /\ prev_y' = value
    /\ resets' = Append(resets, Reset("sleep_y", now))
    /\ UNCHANGED <<sleep_x, prev_x>>

\* a slip: every forwarded event re-arms the timers that are armed
OtherKind_rearms ==
    /\ sleep_x' = (IF sleep_x.far_future THEN sleep_x ELSE RepeatDeadline(now))
    /\ sleep_y' = (IF sleep_y.far_future THEN sleep_y ELSE RepeatDeadline(now))
    /\ UNCHANGED <<prev_x, prev_y, resets>>

\* line 129: `_ => {}`
OtherKind == UNCHANGED <<sleep_x, sleep_y, prev_x, prev_y, resets>>

\* lines 114-132: ev_stream.next_event() yields Ok(ev); io_ok is whether
\* uinp.emit succeeds.  The arm reads the clock at now (lines 122, 126) and
\* uinp.emit (line 131) is called d ticks later
NextEvent(ev, io_ok, d) ==
    /\ status = "running"
    /\ Len(handled) < MaxHandled
    /\ Len(emitted) < MaxEmitted
    /\ (d = 0 \/ now + d <= MaxTime)
    /\ now' = now + d
    /\ handled' = Append(handled, ev)
    /\ IF overflow_checks /\ map_event_overflows(ev, stick_constants)
       THEN /\ status' = "panicked"
            /\ UNCHANGED <<sleep_x, sleep_y, prev_x, prev_y, emitted, resets>>
       ELSE LET mapped == map_event(ev, stick_constants)
            IN IF mapped = None
               THEN Continue(ev)
               ELSE LET out == mapped[1]
                    IN /\ IF out.type = "REL" /\ out.code = "REL_X"
                          THEN ArmX(out.value)
                          ELSE IF out.type = "REL" /\ out.code = "REL_Y"
                          THEN ArmY(out.value)
                          ELSE OtherKind
                       /\ IF io_ok
                          THEN /\ emitted' = Append(emitted,
                                                 Emission(out, "event", now + d))
                               /\ UNCHANGED status
                          ELSE /\ status' = "io_error"
                               /\ UNCHANGED emitted
    /\ UNCHANGED <<args, stick_constants, overflow_checks, m_in, m_out>>

\* line 115: ev_stream.next_event() yields Err, `ev?` returns from main
NextEventErr ==
    /\ status = "running"
    /\ status' = "io_error"
    /\ UNCHANGED <<args, stick_constants, overflow_checks, now, sleep_x,
                   sleep_y, prev_x, prev_y, emitted, handled, resets, m_in,
                   m_out>>

\* a slip: the error of emit is noted and the loop goes on
SleepX_keeps_going(io_ok, d) ==
    /\ status \in {"running", "io_error"}
    /\ Elapsed(sleep_x)
    /\ Len(emitted) < MaxEmitted
    /\ (d = 0 \/ now + d <= MaxTime)
    /\ IF io_ok
       THEN /\ emitted' = Append(emitted,
                              Emission(InputEvent("REL", "REL_X", prev_x),
                                       "sleep_x", now))
            /\ sleep_x' = RepeatDeadline(now + d)
            /\ resets' = Append(resets, Reset("sleep_x", now + d))
            /\ now' = now + d
            /\ UNCHANGED status
       ELSE /\ d = 0
            /\ status' = "io_error"
            /\ UNCHANGED <<emitted, sleep_x, resets, now>>
    /\ UNCHANGED <<args, stick_constants, overflow_checks, sleep_y,
                   prev_x, prev_y, handled, m_in, m_out>>

\* lines 133-140: sleep_x completes.  uinp.emit (line 134) is called at
\* now, and the clock is read for the new deadline (line 139) d ticks
\* later; when emit fails, `?` returns before the reset
SleepX(io_ok, d) ==
    /\ status = "running"
    /\ Elapsed(sleep_x)
    /\ Len(emitted) < MaxEmitted
    /\ (d = 0 \/ now + d <= MaxTime)
    /\ IF io_ok
       THEN /\ emitted' = Append(emitted,
                              Emission(InputEvent("REL", "REL_X", prev_x),
                                       "sleep_x", now))
            /\ sleep_x' = RepeatDeadline(now + d)
            /\ resets' = Append(resets, Reset("sleep_x", now + d))
            /\ now' = now + d
            /\ UNCHANGED status
       ELSE /\ d = 0
            /\ status' = "io_error"
            /\ UNCHANGED <<emitted, sleep_x, resets, now>>
    /\ UNCHANGED <<args, stick_constants, overflow_checks, sleep_y,
                   prev_x, prev_y, handled, m_in, m_out>>

\* lines 141-148: sleep_y completes
SleepY(io_ok, d) ==
    /\ status = "running"
    /\ Elapsed(sleep_y)
    /\ Len(emitted) < MaxEmitted
    /\ (d = 0 \/ now + d <= MaxTime)
    /\ IF io_ok
       THEN /\ emitted' = Append(emitted,
                              Emission(InputEvent("REL", "REL_Y", prev_y),
                                       "sleep_y", now))
            /\ sleep_y' = RepeatDeadline(now + d)
            /\ resets' = Append(resets, Reset("sleep_y", now + d))
            /\ now' = now + d
            /\ UNCHANGED status
       ELSE /\ d = 0
            /\ status' = "io_error"
            /\ UNCHANGED <<emitted, sleep_y, resets, now>>
    /\ UNCHANGED <<args, stick_constants, overflow_checks, sleep_x,
                   prev_x, prev_y, handled, m_in, m_out>>

Next ==
    \/ Tick
    \/ \E ev \in LoopEvents, io_ok \in BOOLEAN, d \in Delays :
           NextEvent(ev, io_ok, d)
    \/ NextEventErr
    \/ \E io_ok \in BOOLEAN, d \in Delays : SleepX(io_ok, d)
    \/ \E io_ok \in BOOLEAN, d \in Delays : SleepY(io_ok, d)

Spec == Init /\ [][Next]_vars

\* the current-thread runtime lets time pass and polls a Sleep that is
\* ready: each branch of a timer is taken once it stays ready, with either
\* outcome of its emit; nothing is assumed of the device
LiveSpec ==
    /\ Init
    /\ [][Next]_vars
    /\ WF_vars(Tick)
    /\ WF_vars(\E io_ok \in BOOLEAN, d \in Delays : SleepX(io_ok, d))
    /\ WF_vars(\E io_ok \in BOOLEAN, d \in Delays : SleepY(io_ok, d))

----------------------------------------------------------------------------
(* Part 3b: the loop without end.  The histories above bound a run; here   *)
(* a run goes on for ever in a finite state: instants are counted from the *)
(* current tick (now stays 0, and d ticks passing bring every deadline d   *)
(* ticks nearer; a deadline that is past is kept as one tick past),        *)
(* `emitted` holds the latest emission only, stamped in the frame of its   *)
(* own instant, `resets` is not kept, and the device, which reports        *)
(* MaxHandled events, is silent from then on.                              *)

\* the Sleep after d more ticks, its deadline counted from the new tick
Passed(sleep, d) ==
    IF sleep.far_future THEN sleep
    ELSE At(IF sleep.at - d < now THEN now - 1 ELSE sleep.at - d)

\* a millisecond passes while the task waits in select!
CycleTick ==
    /\ status = "running"
    /\ sleep_x' = Passed(sleep_x, 1)
    /\ sleep_y' = Passed(sleep_y, 1)
    /\ UNCHANGED <<args, stick_constants, overflow_checks, now, prev_x,
                   prev_y, status, emitted, handled, resets, m_in, m_out>>

\* lines 114-132: the arm reads the clock (lines 122, 126), d ticks pass,
\* and uinp.emit (line 131) is called
CycleNextEvent(ev, io_ok, d) ==
    /\ status = "running"
    /\ Len(handled) < MaxHandled
    /\ handled' = Append(handled, ev)
    /\ IF overflow_checks /\ map_event_overflows(ev, stick_constants)
       THEN /\ status' = "panicked"
            /\ sleep_x' = Passed(sleep_x, d)
            /\ sleep_y' = Passed(sleep_y, d)
            /\ UNCHANGED <<prev_x, prev_y, emitted>>
       ELSE LET mapped == map_event(ev, stick_constants)
            IN IF mapped = None
               THEN /\ sleep_x' = Passed(sleep_x, d)
                    /\ sleep_y' = Passed(sleep_y, d)
                    /\ UNCHANGED <<prev_x, prev_y, status, emitted>>
               ELSE LET out == mapped[1]
                        rel_x == out.type = "REL" /\ out.code = "REL_X"
                        rel_y == out.type = "REL" /\ out.code = "REL_Y"
                    IN /\ sleep_x' = Passed(IF rel_x THEN RepeatDeadline(now)
                                            ELSE sleep_x, d)
                       /\ prev_x' = (IF rel_x THEN out.value ELSE prev_x)
                       /\ sleep_y' = Passed(IF rel_y THEN RepeatDeadline(now)
                                            ELSE sleep_y, d)
                       /\ prev_y' = (IF rel_y THEN out.value ELSE prev_y)
                       /\ IF io_ok
                          THEN /\ emitted' = <<Emission(out, "event", now)>>
                               /\ UNCHANGED status
                          ELSE /\ status' = "io_error"
                               /\ UNCHANGED emitted
    /\ UNCHANGED <<args, stick_constants, overflow_checks, now, resets, m_in,
                   m_out>>

\* a slip: the timer is not re-armed after its repeat
CycleSleepX_once(io_ok, d) ==
    /\ status = "running"
    /\ Elapsed(sleep_x)
    /\ IF io_ok
       THEN /\ emitted' = <<Emission(InputEvent("REL", "REL_X", prev_x),
                                     "sleep_x", now)>>
            /\ sleep_x' = Never
            /\ sleep_y' = Passed(sleep_y, d)
            /\ UNCHANGED status
       ELSE /\ d = 0
            /\ status' = "io_error"
            /\ UNCHANGED <<emitted, sleep_x, sleep_y>>
    /\ UNCHANGED <<args, stick_constants, overflow_checks, now, prev_x,
                   prev_y, handled, resets, m_in, m_out>>

\* lines 133-140: sleep_x completes; uinp.emit (line 134) is called, d
\* ticks pass, and the clock is read for the new deadline (line 139)
CycleSleepX(io_ok, d) ==
    /\ status = "running"
    /\ Elapsed(sleep_x)
    /\ IF io_ok
       THEN /\ emitted' = <<Emission(InputEvent("REL", "REL_X", prev_x),
                                     "sleep_x", now)>>
            /\ sleep_x' = RepeatDeadline(now)
            /\ sleep_y' = Passed(sleep_y, d)
            /\ UNCHANGED status
       ELSE /\ d = 0
            /\ status' = "io_error"
            /\ UNCHANGED <<emitted, sleep_x, sleep_y>>
    /\ UNCHANGED <<args, stick_constants, overflow_checks, now, prev_x,
                   prev_y, handled, resets, m_in, m_out>>

\* lines 141-148: sleep_y completes
CycleSleepY(io_ok, d) ==
    /\ status = "running"
    /\ Elapsed(sleep_y)
    /\ IF io_ok
       THEN /\ emitted' = <<Emission(InputEvent("REL", "REL_Y", prev_y),
                                     "sleep_y", now)>>
            /\ sleep_y' = RepeatDeadline(now)
            /\ sleep_x' = Passed(sleep_x, d)
            /\ UNCHANGED status
       ELSE /\ d = 0
            /\ status' = "io_error"
            /\ UNCHANGED <<emitted, sleep_x, sleep_y>>
    /\ UNCHANGED <<args, stick_constants, overflow_checks, now, prev_x,
                   prev_y, handled, resets, m_in, m_out>>

CycleNext ==
    \/ CycleTick
    \/ \E ev \in LoopEvents, io_ok \in BOOLEAN, d \in Delays :
           CycleNextEvent(ev, io_ok, d)
    \/ NextEventErr
    \/ \E io_ok \in BOOLEAN, d \in Delays : CycleSleepX(io_ok, d)
    \/ \E io_ok \in BOOLEAN, d \in Delays : CycleSleepY(io_ok, d)

\* time passes, and a timer branch that stays ready is taken, with either
\* outcome of its emit
CycleSpec ==
    /\ Init
    /\ [][CycleNext]_vars
    /\ WF_vars(CycleTick)
    /\ WF_vars(\E io_ok \in BOOLEAN, d \in Delays : CycleSleepX(io_ok, d))
    /\ WF_vars(\E io_ok \in BOOLEAN, d \in Delays : CycleSleepY(io_ok, d))

----------------------------------------------------------------------------
(* Part 4: map_axis and map_event on their own.  A run parses a command    *)
(* line under either build profile and then calls the functions on the     *)
(* inputs above; m_in is the last call and m_out its outcome.              *)

MapArgs ==
    {[speed |-> s, repeat_timeout |-> DefaultArgs.repeat_timeout,
      drift_threshold |-> t, adjust_x |-> a[1], adjust_y |-> a[2]] :
        s \in Speeds, t \in Thresholds, a \in Adjusts}

\* physical events: every code of the table, codes outside it, and event
\* types that are neither key nor absolute axis
KeyCodes ==
    {"BTN_TR2", "BTN_TL2", "BTN_TR", "BTN_TL", "BTN_THUMBR", "BTN_THUMBL",
     "BTN_EAST", "BTN_SOUTH", "BTN_NORTH", "BTN_WEST", "BTN_START", "BTN_MODE"}
AbsCodes == {"ABS_X", "ABS_RX", "ABS_Y", "ABS_RY", "ABS_HAT0X"}
MapEvents ==
    {InputEvent("KEY", c, n) : c \in KeyCodes, n \in {0, 1, 2}}
    \cup {InputEvent("ABS", c, v) :
             c \in AbsCodes, v \in {-25000, 0, 500, 30000, I32_MAX}}
    \cup {InputEvent("REL", "REL_X", 3), InputEvent("SYN", "SYN_REPORT", 0),
          InputEvent("MSC", "MSC_TIMESTAMP", 7)}

Returned(v) == [outcome |-> "returned", value |-> v]
\* overflow checks on: `attempt to add with overflow`
Panicked == [outcome |-> "panicked"]

MapInit ==
    /\ args \in MapArgs
    /\ stick_constants = Args_stick_constants(args)
    /\ overflow_checks \in BOOLEAN
    /\ now = 0
    /\ sleep_x = Never
    /\ prev_x = 0
    /\ sleep_y = Never
    /\ prev_y = 0
    /\ status = "running"
    /\ emitted = <<>>
    /\ handled = <<>>
    /\ resets = <<>>
    /\ m_in = NoCall
    /\ m_out = NoCall

\* stick_constants.map_axis(axis, value)
CallMapAxis(axis, value) ==
    /\ m_in' = [fn |-> "map_axis", axis |-> axis, value |-> value]
    /\ m_out' = IF overflow_checks /\ map_axis_overflows(stick_constants, axis, value)
                THEN Panicked
                ELSE Returned(map_axis(stick_constants, axis, value))
    /\ UNCHANGED <<args, stick_constants, overflow_checks, now, sleep_x,
                   sleep_y, prev_x, prev_y, status, emitted, handled, resets>>

\* map_event(ev, &stick_constants)
CallMapEvent(ev) ==
    /\ m_in' = [fn |-> "map_event", ev |-> ev]
    /\ m_out' = IF overflow_checks /\ map_event_overflows(ev, stick_constants)
                THEN Panicked
                ELSE Returned(map_event(ev, stick_constants))
    /\ UNCHANGED <<args, stick_constants, overflow_checks, now, sleep_x,
                   sleep_y, prev_x, prev_y, status, emitted, handled, resets>>

MapNext ==
    \/ \E axis \in Axis, value \in RawValues : CallMapAxis(axis, value)
    \/ \E ev \in MapEvents : CallMapEvent(ev)

MapSpec == MapInit /\ [][MapNext]_vars

----------------------------------------------------------------------------
(* Part 5: properties of map_axis and map_event, over MapSpec.             *)

Sign(n) == IF n > 0 THEN 1 ELSE IF n < 0 THEN -1 ELSE 0

\* the last call was map_axis and it returned
AxisReturned == m_in.fn = "map_axis" /\ m_out.outcome = "returned"

\* the adjustment configured for the axis of the last call
ConfiguredAdjustment ==
    IF m_in.axis = "X" THEN args.adjust_x ELSE args.adjust_y

\* v + adjustment overflows i32 in the last call
SumOverflows == I32AddOverflows(m_in.value, ConfiguredAdjustment)

\* sign(v + adjustment), |v + adjustment| and
\* |v + adjustment| >= drift_threshold of the last call, for the sum as a
\* mathematical integer: a sum beyond i32 is of two terms of one sign
SumSign ==
    IF SumOverflows THEN Sign(ConfiguredAdjustment)
    ELSE Sign(m_in.value + ConfiguredAdjustment)
SumMagnitude ==
    IF SumOverflows
    THEN BAdd[I32Magnitude[m_in.value], I32Magnitude[ConfiguredAdjustment]]
    ELSE I32Magnitude[m_in.value + ConfiguredAdjustment]
SumOutsideDeadZone == BCmp[SumMagnitude, args.drift_threshold] >= 0

\* the adjusted value the code forms in the last call: the i32 sum
AdjustedValue == I32WrappingAdd(m_in.value, ConfiguredAdjustment)
OutsideDeadZone(a) == ~UnsignedAbsLess(a, args.drift_threshold)

\* C2 as stated: outside the dead zone the result has the sign of
\* v + adjustment, so it is non-zero for a non-zero adjusted value.
C2_SignPreserved ==
    (AxisReturned /\ SumOutsideDeadZone) => Sign(m_out.value) = SumSign

\* C2, amended: with a speed that is not negative, outside the dead zone
\* the result of map_axis is zero or has the sign of the adjusted value.
C2_SignOrZero ==
    (AxisReturned /\ args.speed >= 0 /\ OutsideDeadZone(AdjustedValue))
        => Sign(m_out.value) \in {0, Sign(AdjustedValue)}

\* a negative sample outside the dead zone mapped to a negative motion
C2_Witness ==
    /\ AxisReturned
    /\ args.speed > 0
    /\ OutsideDeadZone(AdjustedValue)
    /\ AdjustedValue < 0
    /\ m_out.value < 0

\* the double handed to `as i32` in the last call
CurveValue == ResponseCurveOf(stick_constants.factor, AdjustedValue)

\* 2^31 <= |x|
F64BeyondI32(x) == x.man # BZero /\ x.exp > 31 - F64_MANT_DIG

\* |x| < 2^-7
F64Tiny(x) == x.man = BZero \/ x.exp < -(F64_MANT_DIG + 7)

\* |r| * 2^-x.exp, to compare with x.man, for -60 <= x.exp < 0 and |r| < 2^31
Scaled(r, x) == BShl[BFromNat[IF r < 0 THEN -r ELSE r], -x.exp]

\* r is x rounded to the nearest integer: 2 * |x - r| <= 1
NearestInteger(r, x) ==
    IF F64BeyondI32(x) THEN r = (IF x.sgn = 1 THEN I32_MAX ELSE I32_MIN)
    ELSE IF F64Tiny(x) THEN r = 0
    ELSE /\ r # I32_MIN
         /\ Sign(r) \in {0, x.sgn}
         /\ IF BCmp[Scaled(r, x), x.man] <= 0
            THEN BCmp[BShl[BSub[x.man, Scaled(r, x)], 1], BShl[BOne, -x.exp]] <= 0
            ELSE BCmp[BShl[BSub[Scaled(r, x), x.man], 1], BShl[BOne, -x.exp]] <= 0

\* r is x with its fraction dropped: |r| <= |x| < |r| + 1, saturated at the
\* ends of i32
TruncatedInteger(r, x) ==
    IF F64BeyondI32(x) THEN r = (IF x.sgn = 1 THEN I32_MAX ELSE I32_MIN)
    ELSE IF F64Tiny(x) THEN r = 0
    ELSE /\ r # I32_MIN
         /\ Sign(r) \in {0, x.sgn}
         /\ BCmp[Scaled(r, x), x.man] <= 0
         /\ BCmp[x.man, BAdd[Scaled(r, x), BShl[BOne, -x.exp]]] < 0

\* C3 as stated: outside the dead zone map_axis returns the integer nearest
\* to a^5 * factor.
C3_Rounds ==
    (AxisReturned /\ OutsideDeadZone(AdjustedValue))
        => NearestInteger(m_out.value, CurveValue)

\* C3, amended: outside the dead zone map_axis returns the double
\* f64(a)^5 * factor with its fraction dropped (toward zero), saturated at
\* i32::MIN and i32::MAX, a being the i32 sum of sample and adjustment.
C3_Truncates ==
    (AxisReturned /\ OutsideDeadZone(AdjustedValue))
        => TruncatedInteger(m_out.value, CurveValue)

\* a call whose result is the truncation and not the nearest integer
C3_Witness ==
    /\ AxisReturned
    /\ OutsideDeadZone(AdjustedValue)
    /\ m_out.value # 0
    /\ ~NearestInteger(m_out.value, CurveValue)

\* C4: a sample whose sum with the adjustment of its own axis lies inside
\* the dead zone, |v + adjustment| < drift_threshold, maps to 0.
C4_DeadZone ==
    (m_in.fn = "map_axis" /\ ~SumOutsideDeadZone) => m_out = Returned(0)

\* with overflow checks on, --drift-threshold 3000000000 and --adjust-x 1,
\* the sample i32::MAX, whose sum 2^31 is inside the dead zone, ends in
\* the panic of the addition
C4_Witness ==
    /\ m_in = [fn |-> "map_axis", axis |-> "X", value |-> I32_MAX]
    /\ overflow_checks
    /\ args.adjust_x = 1
    /\ args.drift_threshold = U32_3e9
    /\ ~SumOutsideDeadZone
    /\ m_out = Panicked

\* C5: no call of map_axis traps on, or wraps, the sum of sample and
\* adjustment.
C5_NoOverflow ==
    m_in.fn = "map_axis" => (m_out.outcome = "returned" /\ ~SumOverflows)

\* the samples b of the runs whose adjusted value is outside the dead zone
\* and not below that of the last call, with the result of map_axis for them
LaterSamples ==
    {v \in RawValues :
        /\ ~(overflow_checks /\ map_axis_overflows(stick_constants, m_in.axis, v))
        /\ OutsideDeadZone(I32WrappingAdd(v, ConfiguredAdjustment))
        /\ AdjustedValue <= I32WrappingAdd(v, ConfiguredAdjustment)}

\* C6 as stated: for adjusted values a <= b outside the dead zone, the
\* result for a is at most the result for b.
C6_Monotone ==
    (AxisReturned /\ OutsideDeadZone(AdjustedValue))
        => \A v \in LaterSamples :
               m_out.value <= map_axis(stick_constants, m_in.axis, v)

\* C6, amended: the same for a speed that is not negative.
C6_MonotoneForSpeed ==
    (AxisReturned /\ args.speed >= 0 /\ OutsideDeadZone(AdjustedValue))
        => \A v \in LaterSamples :
               m_out.value <= map_axis(stick_constants, m_in.axis, v)

\* two samples on the same side of the dead zone with different results
C6_Witness ==
    /\ AxisReturned
    /\ args.speed > 0
    /\ OutsideDeadZone(AdjustedValue)
    /\ m_out.value < -1
    /\ \E v \in LaterSamples :
           /\ I32WrappingAdd(v, ConfiguredAdjustment) < 0
           /\ m_out.value < map_axis(stick_constants, m_in.axis, v)
           /\ map_axis(stick_constants, m_in.axis, v) < 0

\* C7: with speed 20, no adjustment and threshold 2000, the sample 30000
\* maps to 20 and the sample -30000 to -20.
C7_FullDeflection ==
    (/\ m_in.fn = "map_axis"
     /\ args.speed = 20
     /\ ConfiguredAdjustment = 0
     /\ args.drift_threshold = U32FromNat(2000))
        => /\ m_in.value = 30000 => m_out = Returned(20)
           /\ m_in.value = -30000 => m_out = Returned(-20)

C7_Witness ==
    /\ m_in = [fn |-> "map_axis", axis |-> "Y", value |-> -30000]
    /\ args.speed = 20
    /\ args.adjust_y = 0
    /\ args.drift_threshold = U32FromNat(2000)
    /\ m_out = Returned(-20)

\* the fixed table of the buttons: physical code to virtual code
KeyTable ==
    [c \in {"BTN_TL2", "BTN_TR2"} |-> "BTN_LEFT"]
    @@ [c \in {"BTN_TL", "BTN_TR"} |-> "BTN_RIGHT"]
    @@ [c \in {"BTN_THUMBL", "BTN_THUMBR"} |-> "BTN_MIDDLE"]
    @@ ("BTN_EAST" :> "KEY_RIGHT") @@ ("BTN_SOUTH" :> "KEY_DOWN")
    @@ ("BTN_NORTH" :> "KEY_UP") @@ ("BTN_WEST" :> "KEY_LEFT")

\* C8: a key event with a code of the table maps to the key event with the
\* table's code and the same value, whatever the value; the two buttons of
\* a pair map to the same event.
C8_KeyTable ==
    (/\ m_in.fn = "map_event"
     /\ m_in.ev.type = "KEY"
     /\ m_in.ev.code \in DOMAIN KeyTable)
        => m_out = Returned(Some(InputEvent("KEY", KeyTable[m_in.ev.code],
                                            m_in.ev.value)))

\* the right upper trigger, with a value that is neither press nor release
C8_Witness ==
    /\ m_in = [fn |-> "map_event", ev |-> InputEvent("KEY", "BTN_TR", 2)]
    /\ m_out = Returned(Some(InputEvent("KEY", "BTN_RIGHT", 2)))

----------------------------------------------------------------------------
(* Part 6: properties of the loop, over Spec, LiveSpec and CycleSpec.       *)

\* a physical event of one of the four stick axes, and its axis
IsAxisEvent(ev) ==
    ev.type = "ABS" /\ ev.code \in {"ABS_X", "ABS_RX", "ABS_Y", "ABS_RY"}
AxisOf(ev) == IF ev.code \in {"ABS_X", "ABS_RX"} THEN "X" ELSE "Y"

\* the loop is running and has handled one event, an axis event
SingleAxisEvent ==
    status = "running" /\ Len(handled) = 1 /\ IsAxisEvent(handled[1])

\* the motion event of the handled axis event, and the timer of its axis
ScenarioOutput ==
    InputEvent("REL", IF AxisOf(handled[1]) = "X" THEN "REL_X" ELSE "REL_Y",
               map_axis(stick_constants, AxisOf(handled[1]), handled[1].value))
ScenarioTimer == IF AxisOf(handled[1]) = "X" THEN sleep_x ELSE sleep_y
ScenarioBranch == IF AxisOf(handled[1]) = "X" THEN "sleep_x" ELSE "sleep_y"

\* the Sleep::reset call of the handler that emitted emitted[k], a motion
\* event: every handler that emits one resets one timer, so the i-th
\* motion event and the i-th reset are of one handler
ResetOf(k) ==
    resets[Cardinality({j \in 1..k : emitted[j].ev.type = "REL"})]

\* the synthetic events emitted no later than 3 * repeat_timeout after t
RepeatsInWindow(t) ==
    {k \in 2..Len(emitted) : emitted[k].at <= t + 3 * args.repeat_timeout}

\* after the live event at emitted[1].at = t, the k-th further output is
\* the same event, from the timer of that axis, at t + k * repeat_timeout;
\* no more than three of them fall in the window, and all three have been
\* emitted once the window is over
ThreeRepeats ==
    /\ emitted # <<>>
    /\ emitted[1].ev = ScenarioOutput
    /\ emitted[1].by = "event"
    /\ \A k \in 2..Len(emitted) :
           /\ emitted[k].ev = ScenarioOutput
           /\ emitted[k].by = ScenarioBranch
           /\ emitted[k].at = emitted[1].at + (k - 1) * args.repeat_timeout
    /\ Cardinality(RepeatsInWindow(emitted[1].at)) <= 3
    /\ (\/ now > emitted[1].at + 3 * args.repeat_timeout
        \/ (/\ now = emitted[1].at + 3 * args.repeat_timeout
            /\ ~Elapsed(ScenarioTimer)))
           => Cardinality(RepeatsInWindow(emitted[1].at)) = 3

\* C1 as stated: after a single axis event at t and no further input,
\* exactly three synthetic events follow, at t + repeat_timeout,
\* t + 2 * repeat_timeout and t + 3 * repeat_timeout, each carrying map_axis
\* of the raw value, and nothing is emitted for the other axis.
C1_ThreeRepeats == SingleAxisEvent => ThreeRepeats

\* the handler of the live event read the clock at t = resets[1].at and
\* emitted the event no earlier; every further output is the same event,
\* from the timer of that axis; the k-th comes a tick or more after its
\* deadline, which is counted from the clock reading of the handler before
\* it, so no earlier than t + k * (repeat_timeout + 1); fewer than three of
\* them fall within 3 * repeat_timeout of t
RepeatsNoEarlier ==
    /\ emitted # <<>>
    /\ emitted[1].ev = ScenarioOutput
    /\ emitted[1].by = "event"
    /\ resets[1].at <= emitted[1].at
    /\ \A k \in 2..Len(emitted) :
           /\ emitted[k].ev = ScenarioOutput
           /\ emitted[k].by = ScenarioBranch
           /\ emitted[k].at > ResetOf(k - 1).at + args.repeat_timeout
           /\ emitted[k].at
                  >= resets[1].at + (k - 1) * (args.repeat_timeout + 1)
    /\ Cardinality(RepeatsInWindow(resets[1].at)) < 3

\* C1, amended: after a single axis event whose handler read the clock at
\* t, and no further input, every further output is a synthetic event of
\* that axis carrying map_axis of the raw value, the k-th later than
\* t + k * repeat_timeout, so that fewer than three are emitted within
\* 3 * repeat_timeout of t; nothing is emitted for the other axis; and the
\* synthetic events do come: unless I/O fails or further input arrives, a
\* first, a second and a third one are emitted.
C1_RepeatsNoEarlier ==
    /\ [](SingleAxisEvent => RepeatsNoEarlier)
    /\ (SingleAxisEvent ~> (~SingleAxisEvent \/ Len(emitted) >= 1 + 3))

\* a sample of 500 was forwarded and repeated three times, each repeat on
\* the first tick after its deadline: two of the repeats came within
\* 3 * repeat_timeout of the clock reading and the third after it
C1_Witness ==
    /\ SingleAxisEvent
    /\ handled[1].value = 500
    /\ Len(emitted) = 1 + 3
    /\ \A k \in 2..Len(emitted) :
           emitted[k].at = resets[1].at + (k - 1) * (args.repeat_timeout + 1)
    /\ Cardinality(RepeatsInWindow(resets[1].at)) = 2
    /\ emitted[1 + 3].at > resets[1].at + 3 * args.repeat_timeout

\* the motion and key events the virtual device declares (lines 89-101)
DeclaredOutput(e) ==
    \/ e.type = "REL" /\ e.code \in {"REL_X", "REL_Y"}
    \/ e.type = "KEY" /\ e.code \in {"BTN_LEFT", "BTN_RIGHT", "BTN_MIDDLE",
                                     "KEY_UP", "KEY_RIGHT", "KEY_DOWN",
                                     "KEY_LEFT"}

\* the physical event has a kind and code of the fixed table
InTable(ev) ==
    IsAxisEvent(ev) \/ (ev.type = "KEY" /\ ev.code \in DOMAIN KeyTable)

\* C9: every event handed to the output sink is a relative X or Y motion or
\* a key event of one of the seven declared codes, and the events not in
\* the fixed table produce no output: no more live outputs than handled
\* events of the table.
C9_OnlyDeclaredOutputs ==
    /\ \A k \in DOMAIN emitted : DeclaredOutput(emitted[k].ev)
    /\ Cardinality({k \in DOMAIN emitted : emitted[k].by = "event"})
           <= Cardinality({i \in DOMAIN handled : InTable(handled[i])})

\* a sync event and a button were handled, and only the button came out
C9_Witness ==
    /\ Len(handled) = 2
    /\ \E i \in DOMAIN handled : handled[i].type = "SYN"
    /\ \E i \in DOMAIN handled : handled[i].type = "KEY" /\ InTable(handled[i])
    /\ Len(emitted) = 1
    /\ emitted[1].ev = InputEvent("KEY", "BTN_LEFT", 1)

\* C10: a step that handles an event map_event translates to None emits
\* nothing and leaves both deadlines and both last values as they were.
C10_DroppedEventFrame ==
    [][(/\ Len(handled') = Len(handled) + 1
        /\ map_event(handled'[Len(handled')], stick_constants) = None)
           => UNCHANGED <<emitted, sleep_x, sleep_y, prev_x, prev_y>>]_vars

\* an event was dropped while the deadline of the X timer was pending
C10_Witness ==
    /\ status = "running"
    /\ Len(handled) = 2
    /\ IsAxisEvent(handled[1])
    /\ map_event(handled[2], stick_constants) = None
    /\ Len(emitted) = 1
    /\ sleep_x = At(emitted[1].at + args.repeat_timeout)
    /\ now < sleep_x.at

\* the output code, the timer, the last value and the branch of an axis
RelCode(ax) == IF ax = "X" THEN "REL_X" ELSE "REL_Y"
TimerOf(ax) == IF ax = "X" THEN sleep_x ELSE sleep_y
PrevOf(ax) == IF ax = "X" THEN prev_x ELSE prev_y
BranchOf(ax) == IF ax = "X" THEN "sleep_x" ELSE "sleep_y"

\* the positions in the history of the events emitted for an axis, live or
\* synthetic, and of the synthetic ones
AxisEmissions(ax) ==
    {k \in DOMAIN emitted :
        emitted[k].ev.type = "REL" /\ emitted[k].ev.code = RelCode(ax)}
Repeats(ax) == {k \in DOMAIN emitted : emitted[k].by = BranchOf(ax)}

\* the live events emitted for an axis
LiveEmissions(ax) == {k \in AxisEmissions(ax) : emitted[k].by = "event"}

\* the last position of a non-empty set of positions
LastOf(S) == CHOOSE k \in S : \A j \in S : j <= k

\* the instant of the most recent event emitted for an axis
LastEmissionAt(ax) == emitted[LastOf(AxisEmissions(ax))].at

\* the handled physical events of an axis
HandledOf(ax) ==
    {i \in DOMAIN handled : IsAxisEvent(handled[i]) /\ AxisOf(handled[i]) = ax}

\* a step that handles no input and moves the deadline of an axis further
\* away: the branch of its timer has run
RepeatStep(ax) ==
    /\ handled' = handled
    /\ ~TimerOf(ax).far_future
    /\ TimerOf(ax)'.at > TimerOf(ax).at

\* a step that handles a physical event of an axis
LiveStep(ax) ==
    /\ handled' # handled
    /\ IsAxisEvent(handled'[Len(handled')])
    /\ AxisOf(handled'[Len(handled')]) = ax

\* the repeat of an axis, as the branch of its timer emits it
RepeatOf(ax) ==
    Emission(InputEvent("REL", RelCode(ax), PrevOf(ax)), BranchOf(ax), now)

\* once armed the timer of an axis is not disarmed; a handler of a physical
\* event of the axis leaves its deadline repeat_timeout after its clock
\* reading; the loop emits without input only in a repeat step; and the
\* loop is still running after a repeat step
RepeatFrame(ax) ==
    /\ ~TimerOf(ax).far_future => ~TimerOf(ax)'.far_future
    /\ (LiveStep(ax) /\ status' # "panicked")
           => \E d \in Delays : TimerOf(ax)' = Passed(RepeatDeadline(now), d)
    /\ (handled' = handled /\ emitted' # emitted)
           => \E other \in Axis : RepeatStep(other)
    /\ RepeatStep(ax) => status' = "running"

\* if the loop goes on running after a physical event of the axis, repeat
\* steps of the axis occur again and again (the device is silent after
\* MaxHandled events)
RepeatsInfinitelyOften(ax) ==
    <>[](status = "running" /\ HandledOf(ax) # {})
        => []<><<RepeatStep(ax)>>_vars

\* C11 as stated: once the timer of an axis is armed it is never disarmed,
\* and as long as I/O does not fail and the device is silent the repeats
\* are emitted infinitely often, one per repeat_timeout: each at the
\* deadline, repeat_timeout after the handler before it, carrying the last
\* value of the axis, and leaving the timer armed for the next one.
C11_OnePerTimeout ==
    /\ [][\A ax \in Axis :
             /\ RepeatFrame(ax)
             /\ RepeatStep(ax)
                    => /\ TimerOf(ax) = At(now)
                       /\ emitted' = <<RepeatOf(ax)>>
                       /\ PrevOf(ax)' = PrevOf(ax)
                       /\ TimerOf(ax)' = RepeatDeadline(now')]_vars
    /\ \A ax \in Axis : RepeatsInfinitelyOften(ax)

\* C11, amended: once the timer of an axis is armed it is never disarmed,
\* and as long as I/O does not fail and the device is silent the repeats
\* are emitted infinitely often: each when the deadline has passed, later
\* than repeat_timeout after the clock reading of the handler before it,
\* carrying the last value of the axis, and leaving the timer armed at
\* repeat_timeout after the clock reading of its own handler.
C11_RepeatsForever ==
    /\ [][\A ax \in Axis :
             /\ RepeatFrame(ax)
             /\ RepeatStep(ax)
                    => /\ Elapsed(TimerOf(ax))
                       /\ emitted' = <<RepeatOf(ax)>>
                       /\ PrevOf(ax)' = PrevOf(ax)
                       /\ TimerOf(ax)' = RepeatDeadline(now')]_vars
    /\ \A ax \in Axis : RepeatsInfinitelyOften(ax)

\* the secondary X source reported a value of the dead zone, the device is
\* silent, and a repeat of the last value 0 has left the timer armed
C11_Witness ==
    /\ status = "running"
    /\ Len(handled) = MaxHandled
    /\ handled[MaxHandled] = InputEvent("ABS", "ABS_RX", 500)
    /\ prev_x = 0
    /\ emitted = <<RepeatOf("X")>>
    /\ sleep_x = RepeatDeadline(now)

\* C12: once reading or emitting has failed the loop is over: the status
\* stays, nothing more is emitted or handled, and the failing step itself
\* emits nothing.
C12_FailureIsFatal ==
    [][/\ status = "io_error"
           => (status' = "io_error" /\ emitted' = emitted /\ handled' = handled)
       /\ status' = "io_error" => emitted' = emitted]_vars

\* I/O has failed while a repeat of X was due and the history had room
C12_Witness ==
    /\ status = "io_error"
    /\ Elapsed(sleep_x)
    /\ emitted # <<>>
    /\ Len(emitted) < MaxEmitted

\* C13 as stated: at every wait point, an axis whose most recent emission,
\* live or synthetic, was at instant t has the deadline t + repeat_timeout.
C13_DeadlineConsistency ==
    status = "running"
        => \A ax \in Axis :
               AxisEmissions(ax) # {}
                   => TimerOf(ax) = At(LastEmissionAt(ax) + args.repeat_timeout)

\* the most recent emission for ax and the clock reading of its handler
\* are in the order of the code: the arm of a live event reads the clock
\* and then emits, the branch of a timer emits and then reads the clock
ClockReadInOrder(ax) ==
    LET k == LastOf(AxisEmissions(ax))
    IN /\ ResetOf(k).timer = BranchOf(ax)
       /\ emitted[k].by = "event" => ResetOf(k).at <= emitted[k].at
       /\ emitted[k].by # "event" => ResetOf(k).at >= emitted[k].at

\* C13, amended: at every wait point, an axis whose most recent emission
\* came from a handler that read the clock at instant t has the deadline
\* t + repeat_timeout, where t is not after the emission of a live event
\* and not before the emission of a repeat; every emission for an axis has
\* its own reset.
C13_DeadlineFromClock ==
    status = "running"
        => /\ Len(resets)
                  = Cardinality({k \in DOMAIN emitted : emitted[k].ev.type = "REL"})
           /\ \A ax \in Axis :
                  AxisEmissions(ax) # {}
                      => /\ TimerOf(ax)
                                = At(ResetOf(LastOf(AxisEmissions(ax))).at
                                         + args.repeat_timeout)
                         /\ ClockReadInOrder(ax)

\* the deadline of Y after a repeat of Y whose handler read the clock a
\* tick after the emit
C13_Witness ==
    /\ status = "running"
    /\ args.repeat_timeout > 0
    /\ Repeats("Y") # {}
    /\ LastOf(AxisEmissions("Y")) \in Repeats("Y")
    /\ sleep_y = At(LastEmissionAt("Y") + 1 + args.repeat_timeout)

\* the loop is at the instant at which it last emitted an event for ax
JustHandled(ax) ==
    status = "running" /\ AxisEmissions(ax) # {} /\ LastEmissionAt(ax) = now

\* C14 as stated: after an event for an axis is handled, the deadline of
\* the axis is strictly later than the current instant, for every
\* repeat_timeout.
C14_StrictlyLater ==
    \A ax \in Axis : JustHandled(ax) => TimerOf(ax).at > now

\* C14, amended: for a repeat_timeout that is not zero the deadline of an
\* axis is strictly later than the instant at which the latest handler for
\* the axis read the clock, and so strictly later than the emission of a
\* repeat; with a repeat_timeout of zero the deadline is that instant.
C14_StrictlyLaterThanClock ==
    \A ax \in Axis :
        (status = "running" /\ AxisEmissions(ax) # {})
            => LET k == LastOf(AxisEmissions(ax))
               IN /\ args.repeat_timeout > 0
                         => TimerOf(ax).at > ResetOf(k).at
                  /\ (args.repeat_timeout > 0 /\ emitted[k].by # "event")
                         => TimerOf(ax).at > emitted[k].at
                  /\ args.repeat_timeout = 0
                         => TimerOf(ax).at = ResetOf(k).at

\* a repeat of X has just been emitted and the next one is not yet due
C14_Witness ==
    /\ JustHandled("X")
    /\ args.repeat_timeout > 0
    /\ LastOf(AxisEmissions("X")) \in Repeats("X")
    /\ ~Elapsed(sleep_x)

\* the step handles a physical event of the axis, or emits its repeat
HandlesLive(ax) ==
    /\ Len(handled') = Len(handled) + 1
    /\ IsAxisEvent(handled'[Len(handled')])
    /\ AxisOf(handled'[Len(handled')]) = ax
HandlesRepeat(ax) ==
    /\ Len(emitted') = Len(emitted) + 1
    /\ emitted'[Len(emitted')].by = BranchOf(ax)

\* C15: a step that handles a physical event of X, or the expiry of the X
\* timer, sets the last value and the deadline of X and leaves those of Y
\* unchanged; the same with X and Y exchanged.
C15_AxisIndependence ==
    [][/\ (HandlesLive("X") \/ HandlesRepeat("X"))
           => UNCHANGED <<sleep_y, prev_y>>
       /\ (HandlesLive("Y") \/ HandlesRepeat("Y"))
           => UNCHANGED <<sleep_x, prev_x>>
       /\ HandlesLive("X")
           => /\ sleep_x' = At(now + args.repeat_timeout)
              /\ prev_x' = map_axis(stick_constants, "X",
                                    handled'[Len(handled')].value)
       /\ HandlesLive("Y")
           => /\ sleep_y' = At(now + args.repeat_timeout)
              /\ prev_y' = map_axis(stick_constants, "Y",
                                    handled'[Len(handled')].value)]_vars

\* X was repeated while the deadline of Y was pending, and Y kept it
C15_Witness ==
    /\ status = "running"
    /\ args.repeat_timeout > 1
    /\ AxisEmissions("Y") # {}
    /\ Repeats("X") # {}
    /\ LastOf(AxisEmissions("Y")) < LastOf(Repeats("X"))
    /\ LastEmissionAt("Y") < LastEmissionAt("X")
    /\ sleep_y = At(LastEmissionAt("Y") + args.repeat_timeout)
    /\ sleep_y # sleep_x

\* C16: a step that handles a button event of the table forwards exactly
\* the translated key event, unless emit fails, and leaves both deadlines
\* and both last values unchanged.
C16_ButtonFrame ==
    [][(/\ Len(handled') = Len(handled) + 1
        /\ handled'[Len(handled')].type = "KEY"
        /\ handled'[Len(handled')].code \in DOMAIN KeyTable)
           => /\ UNCHANGED <<sleep_x, sleep_y, prev_x, prev_y>>
              /\ IF status' = "running"
                 THEN emitted' = Append(emitted,
                          [ev |-> InputEvent("KEY",
                                      KeyTable[handled'[Len(handled')].code],
                                      handled'[Len(handled')].value),
                           at |-> now', by |-> "event"])
                 ELSE emitted' = emitted]_vars

\* a button was forwarded while the deadline of X was pending
C16_Witness ==
    /\ status = "running"
    /\ Len(handled) = 2
    /\ IsAxisEvent(handled[1])
    /\ AxisOf(handled[1]) = "X"
    /\ handled[2].type = "KEY"
    /\ handled[2].code \in DOMAIN KeyTable
    /\ Len(emitted) = 2
    /\ emitted[2].ev.type = "KEY"
    /\ emitted[2].at > emitted[1].at
    /\ sleep_x = At(emitted[1].at + args.repeat_timeout)

\* C17: a synthetic event of an axis comes after a live event of that
\* axis, and with no physical event of the axis handled nothing is emitted
\* for it and its timer is disarmed.
C17_StartDisarmed ==
    \A ax \in Axis :
        /\ \A k \in Repeats(ax) :
               \E j \in 1..(k - 1) :
                   /\ emitted[j].by = "event"
                   /\ emitted[j].ev.type = "REL"
                   /\ emitted[j].ev.code = RelCode(ax)
        /\ HandledOf(ax) = {}
               => (AxisEmissions(ax) = {} /\ Repeats(ax) = {}
                   /\ TimerOf(ax).far_future)

\* only a button and an unrecognised event arrived; time went by and no
\* motion was emitted
C17_Witness ==
    /\ status = "running"
    /\ Len(handled) = 2
    /\ HandledOf("X") = {}
    /\ HandledOf("Y") = {}
    /\ now >= 3
    /\ Len(emitted) = 1
    /\ emitted[1].ev.type = "KEY"

\* C18: at every wait point the last value of an axis is the value of the
\* most recent event emitted for it, 0 if there is none, and every
\* synthetic event carries the value of the event emitted before it for
\* its axis.
C18_LastValue ==
    \A ax \in Axis :
        /\ status = "running"
               => PrevOf(ax) = (IF AxisEmissions(ax) = {} THEN 0
                                ELSE emitted[LastOf(AxisEmissions(ax))].ev.value)
        /\ \A k \in Repeats(ax) :
               /\ emitted[k].ev.type = "REL"
               /\ emitted[k].ev.code = RelCode(ax)
               /\ \E j \in AxisEmissions(ax) :
                      /\ j < k
                      /\ \A i \in AxisEmissions(ax) : i < k => i <= j
                      /\ emitted[k].ev.value = emitted[j].ev.value

\* both axes have a last value, the two differ, and X was repeated
C18_Witness ==
    /\ status = "running"
    /\ prev_x > 0
    /\ prev_y < 0
    /\ Repeats("X") # {}
    /\ LastOf(AxisEmissions("Y")) < LastOf(Repeats("X"))

\* C19 as stated: a synthetic event of an axis is emitted no earlier than
\* repeat_timeout after every earlier event emitted for that axis.
C19_MinimumSpacing ==
    \A ax \in Axis :
        \A k \in Repeats(ax) :
            \A j \in AxisEmissions(ax) :
                j < k => emitted[k].at >= emitted[j].at + args.repeat_timeout

\* C19, amended: a synthetic event of an axis is emitted later than
\* repeat_timeout after the clock reading of every earlier handler for
\* that axis, hence later than that after every earlier repeat; and while
\* the handlers of the physical events of an axis read the clock no more
\* than repeat_timeout apart, no synthetic event is emitted between them.
C19_SpacingFromClock ==
    \A ax \in Axis :
        /\ \A k \in Repeats(ax) :
               \A j \in AxisEmissions(ax) :
                   j < k
                       => /\ emitted[k].at
                                 > ResetOf(j).at + args.repeat_timeout
                          /\ emitted[j].by # "event"
                                 => emitted[k].at
                                        > emitted[j].at + args.repeat_timeout
        /\ \A i, j \in LiveEmissions(ax) :
               (/\ i < j
                /\ ResetOf(j).at <= ResetOf(i).at + args.repeat_timeout)
                   => \A k \in Repeats(ax) : ~(i < k /\ k < j)

\* two physical events of X less than repeat_timeout apart: no repeat
\* between them, and the repeat on the first tick after a full period
\* from the second
C19_Witness ==
    /\ Len(emitted) = 3
    /\ emitted[1].by = "event"
    /\ emitted[2].by = "event"
    /\ emitted[3].by = "sleep_x"
    /\ emitted[1].ev.code = "REL_X"
    /\ emitted[2].ev.code = "REL_X"
    /\ emitted[1].at < emitted[2].at
    /\ emitted[2].at < emitted[1].at + args.repeat_timeout
    /\ emitted[3].at = emitted[2].at + args.repeat_timeout + 1

\* C20: at every wait point the last value of an axis is map_axis of the
\* physical event handled last for it, whichever of its two sources that
\* came from, and the repeats after it carry that value.
C20_SharedRepeatState ==
    status = "running"
        => \A ax \in Axis :
               HandledOf(ax) # {}
                   => /\ PrevOf(ax) = map_axis(stick_constants, ax,
                                               handled[LastOf(HandledOf(ax))].value)
                      /\ ~TimerOf(ax).far_future
                      /\ \A k \in Repeats(ax) :
                             k > LastOf(LiveEmissions(ax))
                                 => emitted[k].ev.value = PrevOf(ax)

\* the secondary Y source reported a deflection, then the primary one a
\* value of the dead zone, and the repeats of Y carry 0 (as those of X do
\* after ABS_X and ABS_RX)
C20_Witness ==
    /\ status = "running"
    /\ Len(handled) = 2
    /\ handled[1].code = "ABS_RY"
    /\ handled[2].code = "ABS_Y"
    /\ emitted[1].ev.value # 0
    /\ prev_y = 0
    /\ Len(emitted) >= 3
    /\ emitted[Len(emitted)].by = "sleep_y"
    /\ emitted[Len(emitted)].ev.value = 0

====
